---- MODULE Spec2Model ----
(***************************************************************************)
(* Bird-versus-worm pursuit simulation (src/src/simulation.py).            *)
(*                                                                         *)
(* Numbers.  The program computes in floating point; the model computes    *)
(* the same expressions in exact arithmetic on integers:                   *)
(*   - a length or coordinate is an integer number of thousandths of a     *)
(*     field unit, a time an integer number of milliseconds;               *)
(*   - a speed is in field units per second, so speed * delta_time is a    *)
(*     length in thousandths;                                              *)
(*   - the starting positions lie on a line through the safe zone whose    *)
(*     direction is a Pythagorean one, and every speed * delta_time is a   *)
(*     multiple of 5 thousandths, so every square root the program takes   *)
(*     is of a perfect square and every quotient is a whole number         *)
(*     (checked: ModelExact).                                              *)
(* round(v, 2) and the print formats round half to even, as Python does on *)
(* a value that is a binary fraction; the step times of the model (eighths *)
(* of a second) are binary fractions.                                      *)
(***************************************************************************)
EXTENDS Integers, Sequences, FiniteSets

VARIABLES
  stdin,          \* the answers the operator types, in prompt order
  clock,          \* the wall clock of this process (datetime.now())
  FIELD_SIZE, SAFE_ZONE_POS, BIRD_SPEED, CATCH_RADIUS, WORM_SPEED, STEP_TIME,
  num_trials,     \* run_trials' parameter
  i,              \* run_trials' loop variable
  results,        \* run_trials' list of outcome records
  stdout,         \* the lines printed so far
  csv,            \* the result file written: <<>> or <<[name, rows]>>
  worm, bird,     \* run_simulation's entities
  time_elapsed,   \* run_simulation's local
  max_steps,      \* run_simulation's local
  step,           \* loop iterations of the current trial completed so far
  pc,             \* where the program is
  exception,      \* the uncaught exception that ended the process, or "none"
  tape,           \* the random draws made so far, one tuple of four per trial
  run,            \* 1: first execution, 2: second execution on the same inputs
  first_results,  \* the outcome records of the first execution
  last_move,      \* the latest call of Entity.move_towards: arguments and result
  hunt_move       \* the latest call of move_towards made by bird.hunt

vars == <<stdin, clock, FIELD_SIZE, SAFE_ZONE_POS, BIRD_SPEED, CATCH_RADIUS,
          WORM_SPEED, STEP_TIME, num_trials, i, results, stdout, csv, worm, bird,
          time_elapsed, max_steps, step, pc, exception, tape, run,
          first_results, last_move,
                 hunt_move>>

----------------------------------------------------------------------------
(* Bounds and input sets *)

MaxTrials == 2

\* n field units (or n seconds) in thousandths
Milli(n) == n * 1000

Abs(n) == IF n < 0 THEN -n ELSE n

FieldSizes   == {0, 100, 1000, 2000}
SafeZones    == {<<4000, 4000>>}
BirdSpeeds   == {-2, 0, 2, 8}
CatchRadii   == {-1000, 1000}
WormSpeeds   == {-4, 0, 3, 4}
StepTimes    == {-125, 0, 125, 250}
TrialCounts  == -1 .. MaxTrials

BaseConfig ==
  [field_size |-> 1000, safe_zone |-> <<4000, 4000>>, bird_speed |-> 8,
   catch_radius |-> 1000, worm_speed |-> 4, step_time |-> 125, trial_count |-> 1]

AllConfigs ==
  [field_size : FieldSizes, safe_zone : SafeZones, bird_speed : BirdSpeeds,
   catch_radius : CatchRadii, worm_speed : WormSpeeds, step_time : StepTimes,
   trial_count : TrialCounts]

Deviations(c) ==
  Cardinality({f \in DOMAIN c : c[f] # BaseConfig[f]})

\* a step of 4 ms on a small field: ten ticks at most, and a tick's elapsed
\* time rounds to 0.00
FineStepConfig ==
  [field_size |-> 100, safe_zone |-> <<4000, 4000>>, bird_speed |-> 10,
   catch_radius |-> 1000, worm_speed |-> 5, step_time |-> 4, trial_count |-> 1]

\* the configurations typed in: the base one, those one or two answers away
\* (a batch of several trials is run on the base configuration only), and
\* the one with the fine step
Configs ==
  {c \in AllConfigs :
     /\ Deviations(c) <= 2
     /\ c.trial_count > 1 => Deviations(c) = 1}
  \cup {FineStepConfig}

\* wall-clock readings
Clocks == {1, 2}

\* Lines through the safe zone: <<ax, ay, n>> with ax^2 + ay^2 = n^2
Lines == {<<1, 0, 1>>, <<3, 4, 5>>, <<-4, 3, 5>>}

\* Starting positions on a line: <<w, b>>, w the signed distance of the
\* worm's start from the safe zone and b that of the bird's start from the
\* worm's start
Along ==
  {<<0, 0>>, <<1000, -1000>>, <<250, 5000>>, <<3000, 2500>>, <<3000, 5000>>}

\* The four draws of one trial, in the order run_simulation makes them:
\* random.uniform(0, 10) twice, then random.uniform(-5, 5) twice.
Draws(safe) ==
  {<<safe[1] + (a[1] * l[1]) \div l[3], safe[2] + (a[1] * l[2]) \div l[3],
     (a[2] * l[1]) \div l[3], (a[2] * l[2]) \div l[3]>> :
       l \in Lines, a \in Along}

----------------------------------------------------------------------------
(* Arithmetic *)

RECURSIVE SqrtSearch(_, _, _)
SqrtSearch(n, lo, hi) ==
  IF lo >= hi THEN lo
  ELSE LET mid == (lo + hi + 1) \div 2
       IN  IF mid * mid <= n THEN SqrtSearch(n, mid, hi)
                             ELSE SqrtSearch(n, lo, mid - 1)

\* math.sqrt on a perfect square (the integer part of the root otherwise)
Sqrt(n) == SqrtSearch(n, 0, 46340)

IsSquare(n) == Sqrt(n) * Sqrt(n) = n

\* n / d rounded to the nearest integer, half to even; d # 0
RoundRatio(n, d) ==
  LET nn == IF d < 0 THEN -n ELSE n
      dd == Abs(d)
      q  == nn \div dd
      r  == nn % dd
  IN  IF 2 * r < dd THEN q
      ELSE IF 2 * r > dd THEN q + 1
      ELSE IF q % 2 = 0 THEN q ELSE q + 1

\* int(n / d): truncation toward zero; d # 0
Trunc(n, d) ==
  LET q == Abs(n) \div Abs(d)
  IN  IF (n < 0) = (d < 0) THEN q ELSE -q

\* math.floor(n / d); d # 0
Floor(n, d) == IF d < 0 THEN (-n) \div (-d) ELSE n \div d

RoundDigits == 2

RECURSIVE Pow10(_)
Pow10(k) == IF k = 0 THEN 1 ELSE 10 * Pow10(k - 1)

\* round(v, ndigits) of a value in thousandths, in thousandths
Round(v, ndigits) ==
  LET g == Milli(1) \div Pow10(ndigits)
  IN  g * RoundRatio(v, g)

----------------------------------------------------------------------------
(* Entity *)

Entity(x, y, speed) == [x |-> x, y |-> y, speed |-> speed]

NoEntity == Entity(0, 0, 0)

\* Entity.distance_to
DistanceTo(self, target_x, target_y) ==
  Sqrt((target_x - self.x) * (target_x - self.x)
       + (target_y - self.y) * (target_y - self.y))

\* "if distance == 0: return" with the guard left out
AtTargetUnguarded(distance) == FALSE

\* the guard of move_towards: the entity is already at its target
AtTarget(distance) == distance = 0

\* the overshoot test never taken
OvershootsNever(distance, max_movement) == FALSE

\* the overshoot test of move_towards
Overshoots(distance, max_movement) == distance < max_movement

\* the step taken away from the target: - in place of +=
AdvanceAway(coord, d, distance, max_movement) ==
  coord - (d * max_movement) \div distance

\* coord + (d / distance) * max_movement; distance # 0
Advance(coord, d, distance, max_movement) ==
  coord + (d * max_movement) \div distance

\* self.y += ux * max_movement: the x component used for y
NewYFromUx(self, dx, dy, distance, max_movement) ==
  Advance(self.y, dx, distance, max_movement)

\* self.x += ux * max_movement
NewX(self, dx, dy, distance, max_movement) ==
  Advance(self.x, dx, distance, max_movement)

\* self.y += uy * max_movement
NewY(self, dx, dy, distance, max_movement) ==
  Advance(self.y, dy, distance, max_movement)

\* Entity.move_towards: the position it leaves the entity at, and
\* raised = TRUE when dx / distance divides by zero
MoveTowards(self, target_x, target_y, delta_time) ==
  LET dx == target_x - self.x
      dy == target_y - self.y
      distance == Sqrt(dx * dx + dy * dy)
      max_movement == self.speed * delta_time
  IN  IF AtTarget(distance)
        THEN [x |-> self.x, y |-> self.y, raised |-> FALSE]
      ELSE IF distance = 0
        THEN [x |-> self.x, y |-> self.y, raised |-> TRUE]
      ELSE IF Overshoots(distance, max_movement)
        THEN [x |-> target_x, y |-> target_y, raised |-> FALSE]
      ELSE [x |-> NewX(self, dx, dy, distance, max_movement),
            y |-> NewY(self, dx, dy, distance, max_movement),
            raised |-> FALSE]

\* what last_move keeps of a call of move_towards
MoveRecord(who, self, target_x, target_y, delta_time) ==
  LET to == MoveTowards(self, target_x, target_y, delta_time)
  IN  [called |-> TRUE, who |-> who, from |-> <<self.x, self.y>>,
       target |-> <<target_x, target_y>>,
       distance |-> DistanceTo(self, target_x, target_y),
       max_movement |-> self.speed * delta_time,
       to |-> <<to.x, to.y>>, raised |-> to.raised,
       exact |-> LET dx == target_x - self.x
                     dy == target_y - self.y
                     d  == Sqrt(dx * dx + dy * dy)
                 IN  /\ IsSquare(dx * dx + dy * dy)
                     /\ d # 0 => /\ (dx * self.speed * delta_time) % d = 0
                                 /\ (dy * self.speed * delta_time) % d = 0]

NoMove ==
  [called |-> FALSE, who |-> "none", from |-> <<0, 0>>, target |-> <<0, 0>>,
   distance |-> 0, max_movement |-> 0, to |-> <<0, 0>>, raised |-> FALSE,
   exact |-> TRUE]

----------------------------------------------------------------------------
(* run_simulation *)

\* range(max_steps) run one iteration too far
MaxStepsOffByOne(field_size, worm_speed, step_time) ==
  Trunc(field_size * 2, worm_speed * step_time) + 1

\* int(FIELD_SIZE / WORM_SPEED / STEP_TIME * 2); worm_speed, step_time # 0
MaxSteps(field_size, worm_speed, step_time) ==
  Trunc(field_size * 2, worm_speed * step_time)

\* time_elapsed = STEP_TIME in place of +=
AccumulateAssign(elapsed, step_time) == step_time

\* time_elapsed += STEP_TIME
Accumulate(elapsed, step_time) == elapsed + step_time

\* the outcome tests with < in place of <=
OutcomeStrict(bird_worm_dist, worm_safe_dist, catch_radius) ==
  IF bird_worm_dist < catch_radius THEN "Caught"
  ELSE IF 2 * worm_safe_dist < catch_radius THEN "Safe"
  ELSE "Running"

\* the two outcome tests in the other order
OutcomeSafeFirst(bird_worm_dist, worm_safe_dist, catch_radius) ==
  IF 2 * worm_safe_dist <= catch_radius THEN "Safe"
  ELSE IF bird_worm_dist <= catch_radius THEN "Caught"
  ELSE "Running"

\* the outcome tests of one tick: Caught first, then Safe
\* (worm_safe_dist <= CATCH_RADIUS / 2 is 2 * worm_safe_dist <= CATCH_RADIUS)
Outcome(bird_worm_dist, worm_safe_dist, catch_radius) ==
  IF bird_worm_dist <= catch_radius THEN "Caught"
  ELSE IF 2 * worm_safe_dist <= catch_radius THEN "Safe"
  ELSE "Running"

\* the dictionary run_simulation returns
Record(attempt_id, outcome, elapsed, w) ==
  [attempt_id |-> attempt_id, outcome |-> outcome,
   time_s |-> Round(elapsed, RoundDigits),
   worm_x |-> Round(w.x, RoundDigits), worm_y |-> Round(w.y, RoundDigits)]

\* a draw that adds the wall clock to the generator's value
RandomUniformClock(d, k) == d[k] + Milli(clock)

\* the k-th random.uniform of a trial whose generator yields the tuple d
RandomUniform(d, k) == d[k]

\* range(1, num_trials + 1) written range(0, num_trials + 1)
RangeStartZero == 1 - 1

\* the first attempt id: range(1, num_trials + 1)
RangeStart == 1

\* the first results shown in detail: results[:5]
DetailRows == 5

Last(s) == s[Len(s)]

RECURSIVE SumSeq(_)
SumSeq(s) == IF s = <<>> THEN 0 ELSE Head(s) + SumSeq(Tail(s))

IsSafe(r) == r.outcome = "Safe"
IsCaught(r) == r.outcome = "Caught"
IsTimeout(r) == r.outcome = "Timeout"

\* sum(1 for r in results if r['outcome'] == 'Safe')
SafeCount(rs) == Len(SelectSeq(rs, IsSafe))

\* sum(1 for r in results if r['outcome'] == 'Caught')
CaughtCount(rs) == Len(SelectSeq(rs, IsCaught))

\* [r['time_s'] for r in results if r['outcome'] == 'Safe']
SafeTimes(rs) == [k \in 1 .. SafeCount(rs) |-> SelectSeq(rs, IsSafe)[k].time_s]

TypeOK ==
  /\ pc \in {"adjust_parameters", "for_trials", "for_step", "seek", "check",
             "done", "error"}
  /\ exception \in {"none", "ZeroDivisionError"}
  /\ run \in {1, 2}
  /\ \A k \in 1 .. Len(results) :
       results[k].outcome \in {"Caught", "Safe", "Timeout"}

----------------------------------------------------------------------------
(* The program *)

\* the state of a process that has just started
Fresh ==
  /\ FIELD_SIZE = 0 /\ SAFE_ZONE_POS = <<0, 0>> /\ BIRD_SPEED = 0
  /\ CATCH_RADIUS = 0 /\ WORM_SPEED = 0 /\ STEP_TIME = 0
  /\ num_trials = 0 /\ i = 0 /\ results = <<>> /\ stdout = <<>> /\ csv = <<>>
  /\ worm = NoEntity /\ bird = NoEntity
  /\ time_elapsed = 0 /\ max_steps = 0 /\ step = 0
  /\ pc = "adjust_parameters" /\ exception = "none"
  /\ last_move = NoMove /\ hunt_move = NoMove

Init ==
  /\ stdin \in Configs
  /\ clock = 1
  /\ tape = <<>>
  /\ run = 1
  /\ first_results = <<>>
  /\ Fresh

\* adjust_parameters up to and including the first lines of run_trials
AdjustParameters ==
  /\ pc = "adjust_parameters"
  /\ FIELD_SIZE' = stdin.field_size
  /\ SAFE_ZONE_POS' = stdin.safe_zone
  /\ BIRD_SPEED' = stdin.bird_speed
  /\ CATCH_RADIUS' = stdin.catch_radius
  /\ WORM_SPEED' = stdin.worm_speed
  /\ STEP_TIME' = stdin.step_time
  /\ num_trials' = stdin.trial_count
  /\ results' = <<>>
  /\ stdout' = Append(stdout, <<"Starting", stdin.trial_count>>)
  /\ i' = RangeStart
  /\ pc' = "for_trials"
  /\ UNCHANGED <<stdin, clock, csv, worm, bird, time_elapsed, max_steps, step,
                 exception, tape, run, first_results, last_move,
                 hunt_move>>

\* time_elapsed left as the previous trial ended it
ElapsedCarriedOver == time_elapsed

\* time_elapsed = 0.0 at the start of run_simulation
ElapsedAtStart == 0

\* run_trials calls run_simulation(i): lines 82-93
StartTrial ==
  /\ pc = "for_trials"
  /\ i <= num_trials
  /\ LET k == Len(results) + 1
     IN  \E d \in (IF run = 2 /\ k <= Len(tape) THEN {tape[k]}
                                               ELSE Draws(SAFE_ZONE_POS)) :
           /\ tape' = IF run = 1 THEN Append(tape, d) ELSE tape
           /\ LET worm_start_x == RandomUniform(d, 1)
                  worm_start_y == RandomUniform(d, 2)
              IN  /\ worm' = Entity(worm_start_x, worm_start_y, WORM_SPEED)
                  /\ bird' = Entity(worm_start_x + RandomUniform(d, 3),
                                    worm_start_y + RandomUniform(d, 4),
                                    BIRD_SPEED)
  /\ time_elapsed' = ElapsedAtStart
  /\ step' = 0
  /\ last_move' = NoMove /\ hunt_move' = NoMove
  /\ IF WORM_SPEED = 0 \/ STEP_TIME = 0
       THEN /\ pc' = "error"
            /\ exception' = "ZeroDivisionError"
            /\ UNCHANGED max_steps
       ELSE /\ max_steps' = MaxSteps(FIELD_SIZE, WORM_SPEED, STEP_TIME)
            /\ pc' = "for_step"
            /\ UNCHANGED exception
  /\ UNCHANGED <<stdin, clock, FIELD_SIZE, SAFE_ZONE_POS, BIRD_SPEED,
                 CATCH_RADIUS, WORM_SPEED, STEP_TIME, num_trials, i, results,
                 stdout, csv, run, first_results>>

\* the bird aims at where the worm will be after its move of this tick
HuntTargetAhead(w) ==
  LET to == MoveTowards(w, SAFE_ZONE_POS[1], SAFE_ZONE_POS[2], STEP_TIME)
  IN  <<to.x, to.y>>

\* Bird.hunt: the point the bird moves towards, the worm's position now
HuntTarget(w) == <<w.x, w.y>>

\* bird.hunt(worm, STEP_TIME), the first statement of a loop iteration
Hunt ==
  /\ pc = "for_step"
  /\ step < max_steps
  /\ LET m == MoveRecord("bird", bird, HuntTarget(worm)[1], HuntTarget(worm)[2],
                         STEP_TIME)
     IN  /\ last_move' = m
         /\ hunt_move' = m
         /\ IF m.raised
              THEN /\ pc' = "error"
                   /\ exception' = "ZeroDivisionError"
                   /\ UNCHANGED bird
              ELSE /\ bird' = [bird EXCEPT !.x = m.to[1], !.y = m.to[2]]
                   /\ pc' = "seek"
                   /\ UNCHANGED exception
  /\ UNCHANGED <<stdin, clock, FIELD_SIZE, SAFE_ZONE_POS, BIRD_SPEED,
                 CATCH_RADIUS, WORM_SPEED, STEP_TIME, num_trials, i, results,
                 stdout, csv, worm, time_elapsed, max_steps, step, tape, run,
                 first_results>>

\* worm.seek_safety(SAFE_ZONE_POS, STEP_TIME)
SeekSafety ==
  /\ pc = "seek"
  /\ LET m == MoveRecord("worm", worm, SAFE_ZONE_POS[1], SAFE_ZONE_POS[2],
                         STEP_TIME)
     IN  /\ last_move' = m
         /\ IF m.raised
              THEN /\ pc' = "error"
                   /\ exception' = "ZeroDivisionError"
                   /\ UNCHANGED worm
              ELSE /\ worm' = [worm EXCEPT !.x = m.to[1], !.y = m.to[2]]
                   /\ pc' = "check"
                   /\ UNCHANGED exception
  /\ UNCHANGED <<stdin, clock, FIELD_SIZE, SAFE_ZONE_POS, BIRD_SPEED,
                 CATCH_RADIUS, WORM_SPEED, STEP_TIME, num_trials, i, results,
                 stdout, csv, bird, time_elapsed, max_steps, step, tape, run,
                 first_results, hunt_move>>

\* the rest of the loop iteration (lines 102-125): the distances, the clock
\* of the trial, the two outcome tests; a returned record is appended by
\* run_trials
CheckOutcome ==
  /\ pc = "check"
  /\ LET bird_worm_dist == DistanceTo(bird, worm.x, worm.y)
         worm_safe_dist == DistanceTo(worm, SAFE_ZONE_POS[1], SAFE_ZONE_POS[2])
         elapsed == Accumulate(time_elapsed, STEP_TIME)
         outcome == Outcome(bird_worm_dist, worm_safe_dist, CATCH_RADIUS)
     IN  /\ time_elapsed' = elapsed
         /\ step' = step + 1
         /\ IF outcome = "Running"
              THEN /\ pc' = "for_step"
                   /\ UNCHANGED <<results, i>>
              ELSE /\ results' = Append(results, Record(i, outcome, elapsed, worm))
                   /\ i' = i + 1
                   /\ pc' = "for_trials"
  /\ UNCHANGED <<stdin, clock, FIELD_SIZE, SAFE_ZONE_POS, BIRD_SPEED,
                 CATCH_RADIUS, WORM_SPEED, STEP_TIME, num_trials, stdout, csv,
                 worm, bird, max_steps, exception, tape, run, first_results,
                 last_move,
                 hunt_move>>

\* range(max_steps) is exhausted: the Timeout record (lines 127-134)
Timeout ==
  /\ pc = "for_step"
  /\ step >= max_steps
  /\ results' = Append(results, Record(i, "Timeout", time_elapsed, worm))
  /\ i' = i + 1
  /\ pc' = "for_trials"
  /\ UNCHANGED <<stdin, clock, FIELD_SIZE, SAFE_ZONE_POS, BIRD_SPEED,
                 CATCH_RADIUS, WORM_SPEED, STEP_TIME, num_trials, stdout, csv,
                 worm, bird, time_elapsed, max_steps, step, exception, tape,
                 run, first_results, last_move,
                 hunt_move>>

\* the lines "Attempt ...: ... in ...s (Final Pos: (..., ...))" of results[:5]
DetailLines(rs) ==
  [k \in 1 .. (IF Len(rs) < DetailRows THEN Len(rs) ELSE DetailRows) |->
     <<"Attempt", rs[k].attempt_id, rs[k].outcome, rs[k].time_s,
       rs[k].worm_x, rs[k].worm_y>>]

\* the summary lines printed when num_trials # 0: the counts with their
\* share of the trials in tenths of a percent (":.1%"), the timeouts, and
\* the average escape time (":.2f") when there is a Safe record
SummaryLines(rs, n) ==
  LET safe_count == SafeCount(rs)
      caught_count == CaughtCount(rs)
      safe_times == SafeTimes(rs)
  IN  <<<<"Worm Escapes (Safe)", safe_count, RoundRatio(safe_count * 1000, n)>>,
        <<"Bird Wins (Caught)", caught_count, RoundRatio(caught_count * 1000, n)>>,
        <<"Timeouts", n - safe_count - caught_count>>>>
      \o (IF safe_times # <<>>
            THEN <<<<"Average Escape Time",
                     10 * RoundRatio(SumSeq(safe_times), 10 * Len(safe_times))>>>>
            ELSE <<>>)

\* run_trials after its loop: lines 149-170
Summarize ==
  /\ pc = "for_trials"
  /\ i > num_trials
  /\ IF num_trials = 0
       THEN \* safe_count / num_trials raises at line 154
            /\ stdout' = stdout \o <<<<"Summary Statistics">>,
                                     <<"Total Trials", num_trials>>>>
            /\ pc' = "error"
            /\ exception' = "ZeroDivisionError"
            /\ UNCHANGED csv
       ELSE /\ stdout' = stdout \o <<<<"Summary Statistics">>,
                                     <<"Total Trials", num_trials>>>>
                                \o SummaryLines(results, num_trials)
                                \o <<<<"First 5 Detailed Results">>>>
                                \o DetailLines(results)
            /\ csv' = <<[name |-> <<num_trials, clock>>, rows |-> results]>>
            /\ pc' = "done"
            /\ UNCHANGED exception
  /\ UNCHANGED <<stdin, clock, FIELD_SIZE, SAFE_ZONE_POS, BIRD_SPEED,
                 CATCH_RADIUS, WORM_SPEED, STEP_TIME, num_trials, i, results,
                 worm, bird, time_elapsed, max_steps, step, tape, run,
                 first_results, last_move,
                 hunt_move>>

\* The program is started a second time, at some wall-clock time, and is
\* given the same answers and a generator that yields the same draws
\* (StartTrial reads them from tape); the first execution's records are kept
\* for comparison.
Rerun ==
  /\ pc \in {"done", "error"}
  /\ run = 1
  /\ run' = 2
  /\ first_results' = results
  /\ clock' \in Clocks
  /\ FIELD_SIZE' = 0 /\ SAFE_ZONE_POS' = <<0, 0>> /\ BIRD_SPEED' = 0
  /\ CATCH_RADIUS' = 0 /\ WORM_SPEED' = 0 /\ STEP_TIME' = 0
  /\ num_trials' = 0 /\ i' = 0 /\ results' = <<>> /\ stdout' = <<>>
  /\ csv' = <<>> /\ worm' = NoEntity /\ bird' = NoEntity
  /\ time_elapsed' = 0 /\ max_steps' = 0 /\ step' = 0
  /\ pc' = "adjust_parameters" /\ exception' = "none"
  /\ last_move' = NoMove /\ hunt_move' = NoMove
  /\ UNCHANGED <<stdin, tape>>

Next ==
  \/ AdjustParameters
  \/ StartTrial
  \/ Hunt
  \/ SeekSafety
  \/ CheckOutcome
  \/ Timeout
  \/ Summarize
  \/ Rerun

Spec == Init /\ [][Next]_vars

----------------------------------------------------------------------------
(* Model sanity *)

\* every square root is of a perfect square and every quotient is whole, so
\* the integer arithmetic of the model is the exact arithmetic of the reals
ModelExact ==
  /\ last_move.exact
  /\ IsSquare((bird.x - worm.x) * (bird.x - worm.x)
              + (bird.y - worm.y) * (bird.y - worm.y))
  /\ pc \in {"for_step", "seek", "check"} =>
       IsSquare((worm.x - SAFE_ZONE_POS[1]) * (worm.x - SAFE_ZONE_POS[1])
                + (worm.y - SAFE_ZONE_POS[2]) * (worm.y - SAFE_ZONE_POS[2]))

----------------------------------------------------------------------------
(* Claims *)

\* a trial has ended and its record is the last of results; bird, worm, step
\* and time_elapsed are still those of that trial
TrialEnded == pc = "for_trials" /\ results # <<>>

SummaryPrinted == \E k \in 1 .. Len(stdout) : stdout[k][1] = "Summary Statistics"

BadConfig(c) ==
  \/ c.bird_speed <= 0
  \/ c.worm_speed <= 0
  \/ c.step_time <= 0
  \/ c.trial_count < 1

\* C1: with a pursuer speed, evader speed or step duration <= 0, or fewer
\* than one trial, the program stops before any simulation work: no tick is
\* executed, no outcome record is produced, no summary is printed and no
\* result file is written.
C1_FailFast ==
  BadConfig(stdin) =>
    /\ pc \notin {"seek", "check"}
    /\ step = 0
    /\ results = <<>>
    /\ ~SummaryPrinted
    /\ csv = <<>>

\* C2: with positive evader speed and step duration a trial executes at most
\* floor(2 * field_size / evader_speed / step_duration) ticks, and every
\* trial that has ended has left exactly one outcome record.
C2_StepCap ==
  (WORM_SPEED > 0 /\ STEP_TIME > 0) =>
    /\ step <= Floor(2 * FIELD_SIZE, WORM_SPEED * STEP_TIME)
    /\ pc \in {"for_trials", "for_step", "seek", "check"} => Len(results) = i - 1
    /\ pc = "done" => Len(results) = i - 1

\* a trial with a step cap that is no whole multiple ran into the cap
C2_Witness ==
  /\ TrialEnded
  /\ WORM_SPEED = 3 /\ STEP_TIME = 125 /\ FIELD_SIZE = 1000
  /\ Last(results).outcome = "Timeout"
  /\ step = 5

BothHold ==
  /\ DistanceTo(bird, worm.x, worm.y) <= CATCH_RADIUS
  /\ 2 * DistanceTo(worm, SAFE_ZONE_POS[1], SAFE_ZONE_POS[2]) <= CATCH_RADIUS

\* C3: every record carries one of the three outcome kinds, and when after
\* both moves of a tick the bird is within the catch radius of the worm and
\* the worm within half the catch radius of the safe zone, the record of
\* that tick is Caught.
C3_CaughtFirst ==
  /\ \A k \in 1 .. Len(results) :
       results[k].outcome \in {"Caught", "Safe", "Timeout"}
  /\ (TrialEnded /\ step >= 1 /\ BothHold) => Last(results).outcome = "Caught"

\* both conditions hold after a tick, with bird and worm at different places
C3_Witness ==
  /\ TrialEnded /\ step >= 1 /\ BothHold
  /\ <<bird.x, bird.y>> # <<worm.x, worm.y>>
  /\ Last(results).outcome = "Caught"

TimeoutsReported ==
  {stdout[k][2] : k \in {j \in 1 .. Len(stdout) : stdout[j][1] = "Timeouts"}}

\* C4: when a batch is through, the Caught, Safe and Timeout records number
\* num_trials together, and the Timeout count printed is the number of
\* Timeout records.
C4_CountsAddUp ==
  pc = "done" =>
    /\ CaughtCount(results) + SafeCount(results)
         + Len(SelectSeq(results, IsTimeout)) = num_trials
    /\ TimeoutsReported = {Len(SelectSeq(results, IsTimeout))}

\* C5: a call of move_towards with speed * dt >= distance leaves the entity
\* exactly at the target.
C5_Snap ==
  (last_move.called /\ ~last_move.raised
     /\ last_move.max_movement >= last_move.distance) =>
    last_move.to = last_move.target

\* the boundary case: speed * dt equals a distance that is not zero
C5_Witness ==
  /\ last_move.called
  /\ last_move.distance > 0
  /\ last_move.max_movement = last_move.distance
  /\ last_move.to = last_move.target

\* C6: a call of move_towards whose target is the entity's own position
\* leaves the position unchanged and raises no division by zero.
C6_ZeroDistance ==
  (last_move.called /\ last_move.from = last_move.target) =>
    /\ last_move.to = last_move.from
    /\ ~last_move.raised
    /\ exception = "none"

C6_Witness ==
  /\ last_move.called
  /\ last_move.from = last_move.target
  /\ last_move.max_movement # 0
  /\ last_move.to = last_move.from

\* C7 as stated, on the configurations that pass the checks of C1: the
\* elapsed time of a record is the number of completed ticks times the step
\* duration.
C7_Unrounded ==
  (TrialEnded /\ ~BadConfig(stdin)) =>
    Last(results).time_s = step * STEP_TIME

\* C7 as amended: the elapsed time of a record is the number of completed
\* ticks times the step duration, rounded to two decimal places; a Timeout
\* record comes after max(step_cap, 0) ticks, a Caught or Safe record after
\* at least one.
C7_Rounded ==
  TrialEnded =>
    /\ Last(results).time_s = Round(step * STEP_TIME, 2)
    /\ Last(results).outcome = "Timeout" =>
         LET step_cap == Floor(2 * FIELD_SIZE, WORM_SPEED * STEP_TIME)
         IN  step = IF step_cap > 0 THEN step_cap ELSE 0
    /\ Last(results).outcome # "Timeout" => step >= 1

\* a record three ticks of an eighth of a second into its trial: 0.38
C7_Witness ==
  /\ TrialEnded
  /\ step = 3 /\ STEP_TIME = 125
  /\ Last(results).outcome = "Caught"
  /\ Last(results).time_s = 380

\* C8: the records are in attempt order, the k-th with attempt id k, and a
\* batch of num_trials >= 1 trials ends with exactly num_trials of them.
C8_AttemptOrder ==
  /\ \A k \in 1 .. Len(results) : results[k].attempt_id = k
  /\ (pc = "done" /\ num_trials >= 1) =>
       /\ Len(results) = num_trials
       /\ csv[1].rows = results

C8_Witness ==
  /\ pc = "done"
  /\ num_trials >= 2
  /\ Len(results) = num_trials
  /\ results[2].attempt_id = 2

IsPrefix(s, t) ==
  /\ Len(s) <= Len(t)
  /\ \A k \in 1 .. Len(s) : s[k] = t[k]

ShortMoveAdvances ==
  LET ex == last_move.target[1] - last_move.from[1]
      ey == last_move.target[2] - last_move.from[2]
      fx == last_move.target[1] - last_move.to[1]
      fy == last_move.target[2] - last_move.to[2]
      after == Sqrt(fx * fx + fy * fy)
  IN  /\ IsSquare(fx * fx + fy * fy)
      /\ after = last_move.distance - last_move.max_movement
      /\ ex * after = fx * last_move.distance
      /\ ey * after = fy * last_move.distance

Between(p, q) ==
  Sqrt((p[1] - q[1]) * (p[1] - q[1]) + (p[2] - q[2]) * (p[2] - q[2]))

\* C11: in a tick the bird moves first, towards the place the worm holds at
\* the start of the tick; then the worm moves towards the safe zone; both
\* moves use STEP_TIME; the outcome tests read the positions after both.
C11_TickOrder ==
  /\ pc = "seek" =>
       /\ last_move = hunt_move
       /\ hunt_move.who = "bird"
       /\ hunt_move.target = <<worm.x, worm.y>>
       /\ hunt_move.to = <<bird.x, bird.y>>
  /\ pc = "check" =>
       /\ hunt_move.who = "bird"
       /\ last_move.who = "worm"
       /\ hunt_move.target = last_move.from
       /\ last_move.target = SAFE_ZONE_POS
       /\ hunt_move.max_movement = BIRD_SPEED * STEP_TIME
       /\ last_move.max_movement = WORM_SPEED * STEP_TIME
       /\ hunt_move.to = <<bird.x, bird.y>>
       /\ last_move.to = <<worm.x, worm.y>>
  /\ (TrialEnded /\ step >= 1) =>
       /\ hunt_move.target = last_move.from
       /\ Last(results).outcome = "Caught"
            <=> Between(hunt_move.to, last_move.to) <= CATCH_RADIUS
       /\ Last(results).outcome = "Safe"
            => 2 * Between(last_move.to, SAFE_ZONE_POS) <= CATCH_RADIUS

\* a tick after the first in which both the bird and the worm have moved
C11_Witness ==
  /\ pc = "check"
  /\ step >= 1
  /\ hunt_move.to # hunt_move.from
  /\ last_move.to # last_move.from
  /\ hunt_move.target = last_move.from

CaughtNow == DistanceTo(bird, worm.x, worm.y) <= CATCH_RADIUS

SafeNow ==
  2 * DistanceTo(worm, SAFE_ZONE_POS[1], SAFE_ZONE_POS[2]) <= CATCH_RADIUS

\* C12: a trial goes on to another tick only when neither condition holds
\* after the tick just made; a Caught record is emitted with the bird within
\* the catch radius of the worm, a Safe record with the worm within half the
\* catch radius of the safe zone and the bird not within the catch radius,
\* a Timeout record when neither holds after the last of the step_cap ticks.
C12_FirstTerminalTick ==
  /\ (pc = "for_step" /\ step >= 1) => (~CaughtNow /\ ~SafeNow)
  /\ (TrialEnded /\ step >= 1) =>
       /\ Last(results).outcome = "Caught" => CaughtNow
       /\ Last(results).outcome = "Safe" => (SafeNow /\ ~CaughtNow)
       /\ Last(results).outcome = "Timeout" =>
            /\ ~CaughtNow /\ ~SafeNow
            /\ step = Floor(2 * FIELD_SIZE, WORM_SPEED * STEP_TIME)

\* a Safe record at a tick after the first and before the last
C12_Witness ==
  /\ TrialEnded
  /\ step >= 2
  /\ step < max_steps
  /\ Last(results).outcome = "Safe"
  /\ SafeNow /\ ~CaughtNow

AveragesReported ==
  {stdout[k][2] :
     k \in {j \in 1 .. Len(stdout) : stdout[j][1] = "Average Escape Time"}}

RECURSIVE SafeTimeSum(_)
SafeTimeSum(rs) ==
  IF rs = <<>> THEN 0
  ELSE (IF Head(rs).outcome = "Safe" THEN Head(rs).time_s ELSE 0)
       + SafeTimeSum(Tail(rs))

\* the summary of a batch that is through: the average printed is that of the
\* Safe records' times, and none is printed when there is no Safe record
AverageOverSafe ==
  pc = "done" =>
    IF SafeCount(results) = 0
      THEN AveragesReported = {}
      ELSE AveragesReported =
             {10 * RoundRatio(SafeTimeSum(results), 10 * SafeCount(results))}

\* C13: the average elapsed time is that of the Safe records only; with no
\* Safe record it is left out, and the aggregation divides by zero in no
\* batch.
C13_AverageOverSafe ==
  /\ AverageOverSafe
  /\ ~(SummaryPrinted /\ exception = "ZeroDivisionError")

SameButId(r, q) ==
  /\ r.outcome = q.outcome /\ r.time_s = q.time_s
  /\ r.worm_x = q.worm_x /\ r.worm_y = q.worm_y

StepCapZero ==
  /\ WORM_SPEED * STEP_TIME # 0
  /\ Abs(2 * FIELD_SIZE) < Abs(WORM_SPEED * STEP_TIME)

\* the record of a trial that has made no tick: Timeout at time 0 with the
\* worm where the trial's draws put it
TimeoutAtStart ==
  LET d == tape[Len(results)]
      r == Last(results)
  IN  /\ r.outcome = "Timeout"
      /\ r.time_s = 0
      /\ r.worm_x = Round(d[1], 2) /\ r.worm_y = Round(d[2], 2)
      /\ step = 0
      /\ ~last_move.called

\* C15 as stated: no Caught or Safe record has elapsed time 0, and a trial
\* whose computed step cap is 0 returns Timeout with elapsed time 0 and the
\* worm's starting position, whatever holds at the start.
C15_NoRecordAtZero ==
  TrialEnded =>
    /\ Last(results).outcome \in {"Caught", "Safe"} => Last(results).time_s # 0
    /\ StepCapZero => TimeoutAtStart

\* C15 as amended: a Caught or Safe record is emitted only after a tick in
\* which both have moved, and its elapsed time is that of its ticks rounded
\* to two decimal places, which is 0 only when the ticks' time rounds to 0;
\* a trial whose computed step cap is 0 returns Timeout with elapsed time 0
\* and the worm's starting position, whatever holds at the start.
C15_NoTestAtStart ==
  TrialEnded =>
    /\ Last(results).outcome \in {"Caught", "Safe"} =>
         /\ step >= 1
         /\ last_move.called /\ last_move.who = "worm"
         /\ hunt_move.called
         /\ Last(results).time_s = Round(step * STEP_TIME, 2)
         /\ (Last(results).time_s = 0
               => 2 * Abs(step * STEP_TIME) <= Pow10(RoundDigits - 1))
    /\ StepCapZero => TimeoutAtStart

\* a field size above 0 with a step cap of 0, and a trial that starts with
\* the bird on the worm and the worm on the safe zone: Timeout at time 0
C15_Witness ==
  /\ TrialEnded
  /\ FIELD_SIZE > 0 /\ WORM_SPEED > 0 /\ STEP_TIME > 0 /\ BIRD_SPEED > 0
  /\ StepCapZero
  /\ BothHold
  /\ TimeoutAtStart

WormSafeDist == DistanceTo(worm, SAFE_ZONE_POS[1], SAFE_ZONE_POS[2])

\* a step of a trial under way, with worm speed and step duration not negative
WormTick ==
  /\ pc \in {"for_step", "seek", "check"}
  /\ WORM_SPEED >= 0 /\ STEP_TIME >= 0

\* C16: with worm speed and step duration not negative, no step of a trial
\* leaves the worm farther from the safe zone than it was, and a worm on the
\* safe-zone point is left there.
C16_NeverFarther ==
  [][WormTick =>
       /\ WormSafeDist' <= WormSafeDist
       /\ <<worm.x, worm.y>> = SAFE_ZONE_POS
            => <<worm'.x, worm'.y>> = SAFE_ZONE_POS]_vars

\* a worm that started off the safe zone, has come to it, and in a later
\* tick of the same trial has moved again and is still on it
C16_Witness ==
  /\ pc = "check" /\ step >= 1
  /\ WORM_SPEED > 0 /\ STEP_TIME > 0
  /\ <<tape[Len(results) + 1][1], tape[Len(results) + 1][2]>> # SAFE_ZONE_POS
  /\ last_move.who = "worm"
  /\ last_move.from = SAFE_ZONE_POS
  /\ last_move.to = SAFE_ZONE_POS
  /\ <<worm.x, worm.y>> = SAFE_ZONE_POS

====
